---------------------------- MODULE Spec2Model ----------------------------
(***************************************************************************)
(* Model of the mention / comment / sentiment pipeline:                    *)
(*   src/src/main.py            run_analysis (the driver)                  *)
(*   src/src/twitter_client.py  TwitterClient.get_mentions,                *)
(*                              TwitterClient.get_comments_on_tweet        *)
(*   src/src/gemini_analyzer.py GeminiAnalyzer.analyze_sentiment           *)
(*                                                                         *)
(* Python strings that the code inspects (the classifier's answer, the     *)
(* environment values parsed by int()) are sequences of one-character      *)
(* strings, so that strip(), lower(), `in` and int() are computed.         *)
(* Opaque values (ids, texts that are only carried along) are TLA+ strings.*)
(***************************************************************************)
EXTENDS Integers, Sequences, FiniteSets, TLC

VARIABLES
    env_MAX_MENTIONS,       \* os.environ['MAX_MENTIONS_TO_FETCH'] (or unset)
    env_MAX_COMMENTS,       \* os.environ['MAX_COMMENTS_PER_MENTION'] (or unset)
    pc,                     \* position of run_analysis
    mentions,               \* main.py:31
    mi,                     \* index of `mention` in the loop of main.py:39
    comments,               \* main.py:42
    ci,                     \* index of `comment` in the loop of main.py:50
    all_analyzed_comments,  \* main.py:37
    uncaught,               \* exception that left run_analysis, "none" if none
    outcome,                \* the branch run_analysis ended in
    csv_file,               \* rows in OUTPUT_CSV_FILE, written by to_csv
    console_df,             \* rows shown by print(df) at main.py:80
    searches,               \* log of the search_recent_tweets calls made
    fetched,                \* log of what get_comments_on_tweet returned
    calls,                  \* log of the generate_content calls made
    persist_log,            \* log of the file-system calls of main.py:69-74
    \* ---- inputs and results of the two pure functions, applied on their own
    f_pc, f_tweet_id, f_replies, f_comments,
    n_pc, n_raw, n_label

driverVars == <<env_MAX_MENTIONS, env_MAX_COMMENTS, pc, mentions, mi, comments,
                ci, all_analyzed_comments, uncaught, outcome, csv_file,
                console_df, searches, fetched, calls, persist_log>>
filterVars == <<f_pc, f_tweet_id, f_replies, f_comments>>
normVars   == <<n_pc, n_raw, n_label>>
vars       == <<driverVars, filterVars, normVars>>

---------------------------------------------------------------------------
(* Bounds of the model.                                                    *)

\* number of comments the Source yields in one run, over all its pages
MaxReplies == 2
\* longest candidate list handed to the Reply Filter on its own
MaxCandidates == 3
\* number of chunks a classifier answer is made of
MaxChunks == 3

---------------------------------------------------------------------------
(* Python strings as sequences of characters.                              *)

POSITIVE == <<"p","o","s","i","t","i","v","e">>
NEGATIVE == <<"n","e","g","a","t","i","v","e">>
NEUTRAL  == <<"n","e","u","t","r","a","l">>
ERROR    == <<"e","r","r","o","r">>

UpperCase == <<"A","B","C","D","E","F","G","H","I","J","K","L","M",
               "N","O","P","Q","R","S","T","U","V","W","X","Y","Z">>
LowerCase == <<"a","b","c","d","e","f","g","h","i","j","k","l","m",
               "n","o","p","q","r","s","t","u","v","w","x","y","z">>
WhiteSpace == {" ", "\t", "\n"}

\* str.lower()
lower_char(c) ==
    IF \E i \in DOMAIN UpperCase : UpperCase[i] = c
    THEN LowerCase[CHOOSE i \in DOMAIN UpperCase : UpperCase[i] = c]
    ELSE c
lower(s) == [i \in DOMAIN s |-> lower_char(s[i])]

\* str.strip(): leading and trailing whitespace removed
RECURSIVE lstrip(_)
lstrip(s) == IF s # <<>> /\ Head(s) \in WhiteSpace THEN lstrip(Tail(s)) ELSE s
RECURSIVE rstrip(_)
rstrip(s) ==
    IF s # <<>> /\ s[Len(s)] \in WhiteSpace
    THEN rstrip(SubSeq(s, 1, Len(s) - 1)) ELSE s
strip(s) == rstrip(lstrip(s))

\* `sub in s` for strings
contains(s, sub) ==
    \E i \in 0 .. (Len(s) - Len(sub)) : SubSeq(s, i + 1, i + Len(sub)) = sub

\* int(s) for a string of decimal digits
Digits == <<"0","1","2","3","4","5","6","7","8","9">>
digit_value(c) == (CHOOSE i \in DOMAIN Digits : Digits[i] = c) - 1
RECURSIVE int(_)
int(s) ==
    IF Len(s) = 1 THEN digit_value(s[1])
    ELSE 10 * int(SubSeq(s, 1, Len(s) - 1)) + digit_value(s[Len(s)])

---------------------------------------------------------------------------
(* gemini_analyzer.py                                                      *)

\* (variant: the first keyword found decides)
normalize_first_keyword(text) ==
    LET sentiment == lower(strip(text)) IN
    IF contains(sentiment, POSITIVE) THEN POSITIVE
    ELSE IF contains(sentiment, NEGATIVE) THEN NEGATIVE
    ELSE NEUTRAL
\* lines 46-62: the label for the text of a response
normalize(text) ==
    LET sentiment == lower(strip(text)) IN
    IF contains(sentiment, POSITIVE) /\ ~contains(sentiment, NEGATIVE)
    THEN POSITIVE
    ELSE IF contains(sentiment, NEGATIVE) /\ ~contains(sentiment, POSITIVE)
    THEN NEGATIVE
    ELSE IF contains(sentiment, NEUTRAL)
    THEN NEUTRAL
    ELSE IF sentiment \in {POSITIVE, NEGATIVE, NEUTRAL}
    THEN sentiment
    ELSE NEUTRAL

\* What self.model.generate_content(prompt) followed by response.text does:
\* it yields a text, or it raises.
Answered(text) == [raises |-> FALSE, text |-> text]
Raised         == [raises |-> TRUE,  text |-> <<>>]

\* What a call gives its caller: a value, or an exception.
Returns(value) == [exc |-> "none", value |-> value]
Escapes(exc)   == [exc |-> exc, value |-> <<>>]

\* (variant: the answer is returned as it came)
analyze_sentiment_unchecked(response) ==
    IF response.raises THEN Returns(ERROR)
    ELSE Returns(lower(strip(response.text)))
\* (variant: only a ValueError is caught)
analyze_sentiment_uncaught(response) ==
    IF response.raises THEN Escapes("Exception")
    ELSE Returns(normalize(response.text))
\* lines 28-68: every exception of the call is caught at line 64.  The guard
\* of lines 33-35 never applies: __init__ sets self.model or raises.
analyze_sentiment(response) ==
    IF response.raises
    THEN Returns(ERROR)                           \* lines 64-68
    ELSE Returns(normalize(response.text))        \* lines 45-62

\* The answers of the classifier: up to MaxChunks chunks, concatenated.
Chunks ==
    { POSITIVE, NEGATIVE, NEUTRAL,
      <<"P","o","s","i">>, <<"T","I","V","E">>, <<"n","e","g","a">>,
      <<" ">>, <<"\n">>, <<"n","o","t"," ">>, <<"o","k">> }
RECURSIVE Concat(_)
Concat(ss) == IF ss = <<>> THEN <<>> ELSE Head(ss) \o Concat(Tail(ss))
RawAnswers ==
    { Concat(ss) : ss \in UNION { [1..k -> Chunks] : k \in 0..MaxChunks } }

---------------------------------------------------------------------------
(* twitter_client.py                                                       *)

\* The posts of the Source.  An id names one post; T1 and T2 match the
\* search query, R1 and R2 are replies.  R1 is written by the author of T1.
Post(id, author, conv, at, text) ==
    [id |-> id, text |-> text, author_id |-> author,
     conversation_id |-> conv, created_at |-> at]
T1 == Post("T1", "A1", "C1", "09:00", "delayed again")
T2 == Post("T2", "A2", "C2", "09:05", "lovely lounge")
R1 == Post("R1", "A1", "C1", "09:10", "still waiting")
R2 == Post("R2", "A2", "C1", "09:15", "same here")
Posts == {T1, T2, R1, R2}
MentionPosts == {T1, T2}

\* (variant: the post itself is dropped once, further copies are kept)
RECURSIVE reply_filter_first_only(_, _)
reply_filter_first_only(tweet_id, replies) ==
    IF replies = <<>> THEN <<>>
    ELSE IF Head(replies).id # tweet_id
         THEN <<Head(replies)>> \o reply_filter_first_only(tweet_id, Tail(replies))
         ELSE Tail(replies)
\* lines 90-110: the loop over response.data (None and [] are both falsy and
\* leave the result empty)
RECURSIVE reply_filter(_, _)
reply_filter(tweet_id, replies) ==
    IF replies = <<>> THEN <<>>
    ELSE IF Head(replies).id # tweet_id
         THEN <<Head(replies)>> \o reply_filter(tweet_id, Tail(replies))
         ELSE reply_filter(tweet_id, Tail(replies))


\* What self.client.search_recent_tweets(...) does: it returns a response
\* whose data is a page of posts, or it raises a tweepy.TweepyException (an
\* HTTP 400/401/403/429 answer), or it raises something else (a transport error).
Page(data)      == [raises |-> "none", data |-> data]
TweepyException == [raises |-> "TweepyException", data |-> <<>>]
OtherException  == [raises |-> "Exception", data |-> <<>>]

\* lines 23-53.  The guard of lines 27-29 never applies: __init__ sets
\* self.client or raises.  In the handler of tweepy.TweepyException, line 48 reads the
\* local `response`, which line 32 never assigned when the call raised: the
\* read raises UnboundLocalError inside the handler, and the `except
\* Exception` clause of the same try statement does not apply to it.
get_mentions(response) ==
    IF response.raises = "none"
    THEN Returns(response.data)                   \* lines 41-45
    ELSE IF response.raises = "TweepyException"
    THEN Escapes("UnboundLocalError")             \* lines 46-48
    ELSE Returns(<<>>)                            \* lines 51-53

\* lines 65-125, with the same read of an unassigned `response` at line 120
get_comments_on_tweet(tweet_id, response) ==
    IF response.raises = "none"
    THEN Returns(reply_filter(tweet_id, response.data))   \* lines 90-116
    ELSE IF response.raises = "TweepyException"
    THEN Escapes("UnboundLocalError")                     \* lines 118-120
    ELSE Returns(<<>>)                                    \* lines 123-125

\* line 70
reply_query(conversation_id, original_tweet_author_id) ==
    [conversation_id |-> conversation_id, not_from |-> original_tweet_author_id]

---------------------------------------------------------------------------
(* main.py                                                                 *)

Unset    == [set |-> FALSE, value |-> <<>>]
SetTo(s) == [set |-> TRUE, value |-> s]
EnvValues == { Unset, SetTo(<<"2","0">>) }

\* line 12, with TWITTER_QUERY unset
TWITTER_SEARCH_QUERY == "@GulfAir -is:retweet"
\* line 13: int(os.environ.get('MAX_MENTIONS_TO_FETCH', 5))
MAX_MENTIONS_TO_FETCH ==
    IF env_MAX_MENTIONS.set THEN int(env_MAX_MENTIONS.value) ELSE 5
\* line 14: int(os.environ.get('MAX_COMMENTS_PER_MENTION', 10))
MAX_COMMENTS_PER_MENTION ==
    IF env_MAX_COMMENTS.set THEN int(env_MAX_COMMENTS.value) ELSE 10

\* Sequences of at most n elements of S
SeqsUpTo(S, n) == UNION { [1..k -> S] : k \in 0..n }
\* The pages a mention search returns: posts matching the query, each once
MentionPages ==
    { p \in SeqsUpTo(MentionPosts, Cardinality(MentionPosts)) :
        \A i, j \in DOMAIN p : i # j => p[i].id # p[j].id }
\* Number of comments in the lists of a log
RECURSIVE Total(_)
Total(lists) == IF lists = <<>> THEN 0 ELSE Len(Head(lists)) + Total(Tail(lists))
\* The pages a comment search returns: any posts, the queried post and posts
\* of the excluded author included, as long as the run stays within MaxReplies
ReplyPages == SeqsUpTo(Posts, MaxReplies - Total(fetched))
\* The answers the driver's classifier gives
DriverAnswers ==
    { POSITIVE, <<"N","e","g","a","t","i","v","e","\n">>, NEUTRAL,
      POSITIVE \o <<" ">> \o NEGATIVE, <<"o","k">> }

\* An entry of the log of searches: the arguments of search_recent_tweets
\* (lines 32-38 and 81-87 of twitter_client.py) and what the call did
Search(query, max_results, response) ==
    [query |-> query, max_results |-> max_results,
     raises |-> response.raises, returned |-> Len(response.data)]

\* lines 54-63
AnalyzedRow(mention, comment, sentiment) ==
    [mention_tweet_id   |-> mention.id,
     mention_tweet_text |-> mention.text,
     comment_id         |-> comment.id,
     comment_text       |-> comment.text,
     comment_author_id  |-> comment.author_id,
     comment_created_at |-> comment.created_at,
     sentiment          |-> sentiment]

\* run_analysis has not started
DriverStart ==
    /\ pc = "Start"
    /\ mentions = <<>>
    /\ mi = 0
    /\ comments = <<>>
    /\ ci = 0
    /\ all_analyzed_comments = <<>>
    /\ uncaught = "none"
    /\ outcome = "running"
    /\ csv_file = <<>>
    /\ console_df = <<>>
    /\ searches = <<>>
    /\ fetched = <<>>
    /\ calls = <<>>
    /\ persist_log = <<>>
FilterIdle == f_pc = "idle" /\ f_tweet_id = "" /\ f_replies = <<>> /\ f_comments = <<>>
NormIdle   == n_pc = "idle" /\ n_raw = <<>> /\ n_label = <<>>

Init ==
    /\ env_MAX_MENTIONS \in EnvValues
    /\ env_MAX_COMMENTS \in EnvValues
    /\ DriverStart
    /\ FilterIdle
    /\ NormIdle

\* lines 20-28: the two clients are built, or building one raises and the
\* run returns
Initialize ==
    /\ pc = "Start"
    /\ \E raised \in {"none", "ValueError", "Exception"} :
        IF raised = "none"
        THEN pc' = "FetchMentions" /\ UNCHANGED outcome
        ELSE pc' = "Done" /\ outcome' = "init_error"
    /\ UNCHANGED <<env_MAX_MENTIONS, env_MAX_COMMENTS, mentions, mi, comments,
                   ci, all_analyzed_comments, uncaught, csv_file, console_df,
                   searches, fetched, calls, persist_log, filterVars, normVars>>

\* The step after the body of the loop of line 39 for the mention at index i
AfterMention(i) ==
    IF i < Len(mentions)
    THEN pc' = "FetchComments" /\ mi' = i + 1
    ELSE pc' = "Persist" /\ mi' = i

\* (variant: the first mention is taken before the page is looked at)
FetchMentions_first_unchecked ==
    /\ pc = "FetchMentions"
    /\ \E response \in {Page(p) : p \in MentionPages}
                         \cup {TweepyException, OtherException} :
        LET r == get_mentions(response) IN
        /\ searches' = Append(searches,
              Search(TWITTER_SEARCH_QUERY, MAX_MENTIONS_TO_FETCH, response))
        /\ IF r.exc # "none"
           THEN /\ pc' = "Crashed" /\ uncaught' = r.exc
                /\ UNCHANGED <<mentions, mi, outcome>>
           ELSE IF r.value = <<>>
           THEN /\ pc' = "Crashed" /\ uncaught' = "IndexError"
                /\ UNCHANGED <<mentions, mi, outcome>>
           ELSE /\ pc' = "FetchComments" /\ mentions' = r.value /\ mi' = 1
                /\ UNCHANGED <<uncaught, outcome>>
    /\ UNCHANGED <<env_MAX_MENTIONS, env_MAX_COMMENTS, comments, ci,
                   all_analyzed_comments, csv_file, console_df, fetched, calls,
                   persist_log, filterVars, normVars>>
\* lines 30-39: the mention search, the return on an empty list, and the
\* entry into the loop over the mentions
FetchMentions ==
    /\ pc = "FetchMentions"
    /\ \E response \in {Page(p) : p \in MentionPages}
                         \cup {TweepyException, OtherException} :
        LET r == get_mentions(response) IN
        /\ searches' = Append(searches,
              Search(TWITTER_SEARCH_QUERY, MAX_MENTIONS_TO_FETCH, response))
        /\ IF r.exc # "none"
           THEN /\ pc' = "Crashed" /\ uncaught' = r.exc
                /\ UNCHANGED <<mentions, mi, outcome>>
           ELSE IF r.value = <<>>
           THEN /\ pc' = "Done" /\ outcome' = "no_mentions"
                /\ UNCHANGED <<mentions, mi, uncaught>>
           ELSE /\ pc' = "FetchComments" /\ mentions' = r.value /\ mi' = 1
                /\ UNCHANGED <<uncaught, outcome>>
    /\ UNCHANGED <<env_MAX_MENTIONS, env_MAX_COMMENTS, comments, ci,
                   all_analyzed_comments, csv_file, console_df, fetched, calls,
                   persist_log, filterVars, normVars>>

\* (variant: the comments of the first mention only are fetched)
FetchComments_first_only ==
    /\ pc = "FetchComments"
    /\ LET mention == mentions[mi] IN
       \E response \in {Page(p) : p \in ReplyPages}
                         \cup {TweepyException, OtherException} :
        LET r == get_comments_on_tweet(mention.id, response) IN
        /\ searches' = Append(searches,
              Search(reply_query(mention.conversation_id, mention.author_id),
                     MAX_COMMENTS_PER_MENTION, response))
        /\ IF r.exc # "none"
           THEN /\ pc' = "Crashed" /\ uncaught' = r.exc
                /\ UNCHANGED <<comments, fetched, mi, ci>>
           ELSE /\ comments' = IF mi = 1 THEN r.value ELSE <<>>
                /\ fetched' = Append(fetched, r.value)
                /\ uncaught' = uncaught
                /\ IF comments' # <<>>
                   THEN pc' = "Classify" /\ ci' = 1 /\ mi' = mi
                   ELSE AfterMention(mi) /\ ci' = ci
    /\ UNCHANGED <<env_MAX_MENTIONS, env_MAX_COMMENTS, mentions, outcome,
                   all_analyzed_comments, csv_file, console_df, calls,
                   persist_log, filterVars, normVars>>
\* lines 39-49 and 64-65: the comment search for the mention at index mi
FetchComments ==
    /\ pc = "FetchComments"
    /\ LET mention == mentions[mi] IN
       \E response \in {Page(p) : p \in ReplyPages}
                         \cup {TweepyException, OtherException} :
        LET r == get_comments_on_tweet(mention.id, response) IN
        /\ searches' = Append(searches,
              Search(reply_query(mention.conversation_id, mention.author_id),
                     MAX_COMMENTS_PER_MENTION, response))
        /\ IF r.exc # "none"
           THEN /\ pc' = "Crashed" /\ uncaught' = r.exc
                /\ UNCHANGED <<comments, fetched, mi, ci>>
           ELSE /\ comments' = r.value
                /\ fetched' = Append(fetched, r.value)
                /\ uncaught' = uncaught
                /\ IF r.value # <<>>
                   THEN pc' = "Classify" /\ ci' = 1 /\ mi' = mi
                   ELSE AfterMention(mi) /\ ci' = ci
    /\ UNCHANGED <<env_MAX_MENTIONS, env_MAX_COMMENTS, mentions, outcome,
                   all_analyzed_comments, csv_file, console_df, calls,
                   persist_log, filterVars, normVars>>

\* lines 50-63: one comment is classified and its row appended
Classify ==
    /\ pc = "Classify"
    /\ LET mention == mentions[mi]
           comment == comments[ci] IN
       \E response \in {Answered(t) : t \in DriverAnswers} \cup {Raised} :
        LET r == analyze_sentiment(response) IN
        /\ calls' = Append(calls, [text |-> comment.text,
                                   raises |-> response.raises])
        /\ IF r.exc # "none"
           THEN /\ pc' = "Crashed" /\ uncaught' = r.exc
                /\ UNCHANGED <<all_analyzed_comments, mi, ci>>
           ELSE /\ all_analyzed_comments' =
                      Append(all_analyzed_comments,
                             AnalyzedRow(mention, comment, r.value))
                /\ uncaught' = uncaught
                /\ IF ci < Len(comments)
                   THEN pc' = pc /\ ci' = ci + 1 /\ mi' = mi
                   ELSE AfterMention(mi) /\ ci' = ci
    /\ UNCHANGED <<env_MAX_MENTIONS, env_MAX_COMMENTS, mentions, comments,
                   outcome, csv_file, console_df, searches, fetched,
                   persist_log, filterVars, normVars>>

\* lines 67-82.  os.makedirs (line 70) is called outside the try statement
\* of lines 73-80, which catches the IOError (OSError) of to_csv.
Persist ==
    /\ pc = "Persist"
    /\ \E dir_exists \in BOOLEAN, makedirs, to_csv \in {"ok", "OSError"} :
        IF all_analyzed_comments = <<>>
        THEN /\ pc' = "Done" /\ outcome' = "no_comments"           \* line 82
             /\ UNCHANGED <<uncaught, csv_file, console_df, persist_log>>
        ELSE IF ~dir_exists /\ makedirs # "ok"
        THEN /\ pc' = "Crashed" /\ uncaught' = makedirs            \* line 70
             /\ persist_log' = <<"makedirs">>
             /\ UNCHANGED <<outcome, csv_file, console_df>>
        ELSE /\ persist_log' = (IF dir_exists THEN <<>> ELSE <<"makedirs">>)
                                   \o <<"to_csv">>
             /\ uncaught' = uncaught
             /\ IF to_csv = "ok"
                THEN /\ pc' = "Done" /\ outcome' = "saved"         \* lines 74-76
                     /\ csv_file' = all_analyzed_comments
                     /\ console_df' = console_df
                ELSE /\ pc' = "Done" /\ outcome' = "console"       \* lines 77-80
                     /\ console_df' = all_analyzed_comments
                     /\ csv_file' = csv_file
    /\ UNCHANGED <<env_MAX_MENTIONS, env_MAX_COMMENTS, mentions, mi, comments,
                   ci, all_analyzed_comments, searches, fetched, calls,
                   filterVars, normVars>>

Next == Initialize \/ FetchMentions \/ FetchComments \/ Classify \/ Persist

Spec == Init /\ [][Next]_vars

---------------------------------------------------------------------------
(* The Reply Filter on its own: any post id, any list of candidates.       *)

InitFilter ==
    /\ env_MAX_MENTIONS = Unset /\ env_MAX_COMMENTS = Unset
    /\ DriverStart
    /\ NormIdle
    /\ f_pc = "input"
    /\ f_tweet_id \in {p.id : p \in Posts}
    /\ f_replies \in SeqsUpTo(Posts, MaxCandidates)
    /\ f_comments = <<>>

ApplyFilter ==
    /\ f_pc = "input"
    /\ f_comments' = get_comments_on_tweet(f_tweet_id, Page(f_replies)).value
    /\ f_pc' = "output"
    /\ UNCHANGED <<f_tweet_id, f_replies, driverVars, normVars>>

NextFilter == ApplyFilter

SpecFilter == InitFilter /\ [][NextFilter]_vars

---------------------------------------------------------------------------
(* The Sentiment Normalizer on its own: any answer of the classifier.      *)

InitNormalizer ==
    /\ env_MAX_MENTIONS = Unset /\ env_MAX_COMMENTS = Unset
    /\ DriverStart
    /\ FilterIdle
    /\ n_pc = "input"
    /\ n_raw \in RawAnswers
    /\ n_label = <<>>

ApplyNormalizer ==
    /\ n_pc = "input"
    /\ n_label' = analyze_sentiment(Answered(n_raw)).value
    /\ n_pc' = "output"
    /\ UNCHANGED <<n_raw, driverVars, filterVars>>

NextNormalizer == ApplyNormalizer

SpecNormalizer == InitNormalizer /\ [][NextNormalizer]_vars

---------------------------------------------------------------------------
(* Properties.                                                             *)

Labels == {POSITIVE, NEGATIVE, NEUTRAL, ERROR}

\* The parent mention of a row: the post of the page with the row's mention id
ParentsOf(row) ==
    { mentions[k] : k \in { j \in DOMAIN mentions :
                              mentions[j].id = row.mention_tweet_id } }

\* C1: a search of the Source that raises is recovered where it happens: the
\* call gives the driver an empty list (the run ends with "no mentions" when
\* it was the mention search, the mention has no comments when it was a
\* comment search) and the exception does not leave run_analysis.
C1_FetchFailureRecovered ==
    /\ \A i \in DOMAIN searches :
          searches[i].raises # "none" =>
             IF i = 1
             THEN pc = "Done" /\ outcome = "no_mentions"
             ELSE (i - 1) \in DOMAIN fetched /\ fetched[i - 1] = <<>>
    /\ uncaught # "UnboundLocalError"

\* C2: no accumulated row has a comment written by the author of its parent
\* mention.
C2_NoRowByMentionAuthor ==
    \A i \in DOMAIN all_analyzed_comments :
       \A m \in ParentsOf(all_analyzed_comments[i]) :
          all_analyzed_comments[i].comment_author_id # m.author_id

\* C3: every search of the Source is made with max_results at least 10.
C3_MaxResultsAtLeastTen ==
    \A i \in DOMAIN searches : searches[i].max_results >= 10

\* C4: the sentiment of every accumulated row, and of every row written to
\* the file or shown on the console, is one of the four labels.
C4_SentimentIsLabel ==
    \A rows \in {all_analyzed_comments, csv_file, console_df} :
       \A i \in DOMAIN rows : rows[i].sentiment \in Labels
\* Rows were written to the file: one whose classifier call raised, and one
\* whose answer had none of the three keywords.
C4_Witness ==
    /\ outcome = "saved"
    /\ Len(csv_file) = 2
    /\ csv_file[1].sentiment = ERROR
    /\ calls[2].raises = FALSE /\ csv_file[2].sentiment = NEUTRAL

\* C5: the comments returned are exactly the candidates whose id is not the
\* id of the post, in the order of the page, each as often as the page has it.
RECURSIVE IsSubsequence(_, _)
IsSubsequence(a, b) ==
    \/ a = <<>>
    \/ /\ b # <<>>
       /\ IF Head(a) = Head(b)
          THEN IsSubsequence(Tail(a), Tail(b))
          ELSE IsSubsequence(a, Tail(b))
C5_FilterDropsOnlyThePost ==
    f_pc = "output" =>
       /\ \A i \in DOMAIN f_comments : f_comments[i].id # f_tweet_id
       /\ IsSubsequence(f_comments, f_replies)
       /\ Len(f_comments) =
             Cardinality({ i \in DOMAIN f_replies : f_replies[i].id # f_tweet_id })
\* The page holds the post itself twice and another post twice.
C5_Witness ==
    /\ f_pc = "output"
    /\ Len(f_replies) = 3
    /\ f_replies[1].id # f_tweet_id
    /\ f_replies[2].id = f_tweet_id
    /\ f_replies[3] = f_replies[1]
    /\ f_comments = <<f_replies[1], f_replies[3]>>

\* C6: with s the answer stripped and lowercased, the label is positive when
\* s contains "positive" and not "negative", negative when s contains
\* "negative" and not "positive", neutral when s contains both, and s itself
\* when s is one of the three label words.
C6_NormalizerRules ==
    n_pc = "output" =>
       LET s == lower(strip(n_raw))
           pos == contains(s, POSITIVE)
           neg == contains(s, NEGATIVE) IN
       /\ (pos /\ ~neg) => n_label = POSITIVE
       /\ (neg /\ ~pos) => n_label = NEGATIVE
       /\ (pos /\ neg)  => n_label = NEUTRAL
       /\ s \in {POSITIVE, NEGATIVE, NEUTRAL} => n_label = s
\* An answer in mixed case that contains both keywords was labelled.
C6_Witness ==
    /\ n_pc = "output"
    /\ n_raw # lower(strip(n_raw))
    /\ contains(lower(strip(n_raw)), POSITIVE)
    /\ contains(lower(strip(n_raw)), NEGATIVE)
    /\ ~contains(n_raw, POSITIVE)
    /\ n_label = NEUTRAL

\* C7: every classifier call has its row, in the order of the calls; the row
\* of a call that raised, and no other, has the sentiment error; no exception
\* of the classifier leaves run_analysis; and when the loop over the mentions
\* has ended, every comment of every mention has been classified.
C7_ClassifierFailureGivesErrorRow ==
    /\ Len(all_analyzed_comments) = Len(calls)
    /\ \A i \in DOMAIN calls :
          /\ all_analyzed_comments[i].comment_text = calls[i].text
          /\ calls[i].raises <=> (all_analyzed_comments[i].sentiment = ERROR)
    /\ uncaught # "Exception"
    /\ pc = "Persist" => Len(calls) = Total(fetched)
\* The first classifier call raised, and the loop went on to a comment of the
\* next mention.
C7_Witness ==
    /\ pc = "Persist"
    /\ Len(calls) = 2
    /\ calls[1].raises /\ ~calls[2].raises
    /\ all_analyzed_comments[1].mention_tweet_id
          # all_analyzed_comments[2].mention_tweet_id
    /\ all_analyzed_comments[2].sentiment = NEGATIVE

\* C8: when there are rows to persist and the file is not written, the rows
\* are shown on the console and the run ends in Done.
C8_PersistFailureFallsBack ==
    (persist_log # <<>> /\ csv_file = <<>>) =>
       /\ pc = "Done"
       /\ console_df = all_analyzed_comments

\* C9: when the mention search returns an empty page, the run ends with the
\* "no mentions" outcome: no row, no further search, no classifier call, no
\* directory made, no file written, nothing on the console.
C9_EmptyPageEndsRun ==
    (searches # <<>> /\ searches[1].raises = "none" /\ searches[1].returned = 0) =>
       /\ pc = "Done" /\ outcome = "no_mentions" /\ uncaught = "none"
       /\ all_analyzed_comments = <<>>
       /\ Len(searches) = 1
       /\ calls = <<>>
       /\ persist_log = <<>> /\ csv_file = <<>> /\ console_df = <<>>
C9_Witness ==
    /\ pc = "Done"
    /\ Len(searches) = 1
    /\ searches[1].raises = "none" /\ searches[1].returned = 0

\* C10: when the loop over the mentions has ended, the rows are, for each
\* mention of the page in turn, one row for each comment that
\* get_comments_on_tweet returned for it, in order, with the id and the text
\* of that mention.
JoinedRow(mention, comment) ==
    [mention_tweet_id   |-> mention.id,
     mention_tweet_text |-> mention.text,
     comment_id         |-> comment.id,
     comment_text       |-> comment.text,
     comment_author_id  |-> comment.author_id,
     comment_created_at |-> comment.created_at]
RECURSIVE JoinedFrom(_)
JoinedFrom(k) ==
    IF k > Len(mentions) THEN <<>>
    ELSE [j \in DOMAIN fetched[k] |-> JoinedRow(mentions[k], fetched[k][j])]
            \o JoinedFrom(k + 1)
WithoutSentiment(row) ==
    [f \in DOMAIN row \ {"sentiment"} |-> row[f]]
C10_RowsForEveryMention ==
    pc = "Persist" =>
       /\ Len(fetched) = Len(mentions)
       /\ [i \in DOMAIN all_analyzed_comments |->
               WithoutSentiment(all_analyzed_comments[i])] = JoinedFrom(1)
\* Two mentions, each with a comment.
C10_Witness ==
    /\ pc = "Persist"
    /\ Len(mentions) = 2
    /\ Len(fetched) = 2 /\ fetched[1] # <<>> /\ fetched[2] # <<>>
    /\ Len(all_analyzed_comments) = 2

=============================================================================
